---------------------------- MODULE Spec2Model ----------------------------
(***************************************************************************)
(* A model of shmaps: the smaps record model (memory_map.rs), the report   *)
(* parser (parse.rs), the two-pointer diff of two snapshots (diff.rs) and  *)
(* the periodic sampling loop that drives them (main.rs).                  *)
(*                                                                         *)
(* Two specifications share the actions of diff_sorted:                    *)
(*   SpecDiff  diff_sorted applied to every pair of bounded snapshots;     *)
(*   Spec      the periodic loop of main: read, parse, diff, render,       *)
(*             sleep, with the previous snapshot carried over.             *)
(***************************************************************************)
EXTENDS Integers, Sequences, FiniteSets

VARIABLES
    pc,               \* position of the process in main / diff_sorted
    content,          \* main: the text read from /proc/<pid>/smaps, as lines
    memory_map,       \* main: the snapshot parsed in this cycle
    last_memory_map,  \* main: the snapshot of the previous cycle
    vec1, vec2,       \* diff_sorted: its two arguments
    i, j,             \* diff_sorted: the two cursors (0-based, as in the code)
    diffs,            \* diff_sorted: the Diffs value being built
    iters,            \* number of loop iterations diff_sorted has run
    stdout,           \* what this cycle has printed so far
    stderr            \* the panic message, once the process has panicked

vars == <<pc, content, memory_map, last_memory_map, vec1, vec2, i, j, diffs,
          iters, stdout, stderr>>

---------------------------------------------------------------------------
(* Bounds of the model.                                                    *)

MaxLen == 2     \* records per snapshot
MaxAddr == 3    \* start addresses are 1..MaxAddr

---------------------------------------------------------------------------
(* memory_map.rs: Numeric, Range, MemoryMap.                               *)

None == <<>>
Some(x) == <<x>>

Kb(n) == [tag |-> "Kb", num |-> n]
Number(n) == [tag |-> "Number", num |-> n]

\* Numeric::value: the magnitude, whatever the unit tag.
value(n) == n.num

\* A comparison of whole ranges, the to breaking a tie of the from: what
\* a derived ordering of Range would be.
Range_partial_cmp_whole(a, b) ==
    IF a.from < b.from THEN "Less"
    ELSE IF a.from > b.from THEN "Greater"
    ELSE IF a.to < b.to THEN "Less"
    ELSE IF a.to > b.to THEN "Greater"
    ELSE "Equal"

\* PartialOrd for Range: only the from is compared.
Range_partial_cmp(a, b) ==
    IF a.from < b.from THEN "Less"
    ELSE IF a.from > b.from THEN "Greater"
    ELSE "Equal"

\* PartialOrd for MemoryMap: the order of the address ranges.
MemoryMap_partial_cmp(a, b) == Range_partial_cmp(a.address_range, b.address_range)

\* vec1[i] <= vec2[j], which is not what the code tests
MemoryMapLe(a, b) == MemoryMap_partial_cmp(a, b) \in {"Less", "Equal"}

\* vec1[i] < vec2[j] and vec1[i] > vec2[j]
MemoryMapLt(a, b) == MemoryMap_partial_cmp(a, b) = "Less"
MemoryMapGt(a, b) == MemoryMap_partial_cmp(a, b) = "Greater"

\* sizes.get(key).map(|v| v.value())
SizesGetValue(sizes, key) ==
    IF key \in DOMAIN sizes THEN Some(value(sizes[key])) ELSE None

\* MemoryMap::size and MemoryMap::rss
size(m) == SizesGetValue(m.sizes, "Size")
rss(m) == SizesGetValue(m.sizes, "Rss")

MemoryMap(from, to, perm, path, sizes, flags) ==
    [address_range |-> [from |-> from, to |-> to],
     permissions |-> perm,
     offset |-> "00000000",
     device |-> "00:00",
     inode |-> "0",
     path |-> path,
     sizes |-> sizes,
     vm_flags |-> flags]

---------------------------------------------------------------------------
(* The mappings the model draws snapshots from.  A variant is what a       *)
(* mapping at a given start address looks like: its length, permissions,   *)
(* path, counters and flags.                                               *)

Variant(len, perm, path, sizes, flags) ==
    [len |-> len, perm |-> perm, path |-> path, sizes |-> sizes, flags |-> flags]

BaseVariant ==
    Variant(1, "r--p", None, [Size |-> Kb(4), Rss |-> Kb(4)], "rd mr")
\* the same mapping with less of it resident
RssVariant ==
    Variant(1, "r--p", None, [Size |-> Kb(4), Rss |-> Kb(0)], "rd mr")
\* the same mapping grown: another end address
EndVariant ==
    Variant(2, "r--p", None, [Size |-> Kb(4), Rss |-> Kb(4)], "rd mr")
\* a report without the Size counter
NoSizeVariant ==
    Variant(1, "r--p", None, [Rss |-> Kb(4)], "rd mr")
\* an unrelated mapping: other permissions, path, flags, unit tag and an
\* extra counter, with the end address, Size and Rss magnitudes of the base
OtherVariant ==
    Variant(1, "rw-p", Some("/a.out"),
            [Size |-> Number(4), Rss |-> Kb(4), Pss |-> Kb(1)], "rd wr")

Variants == {BaseVariant, RssVariant, EndVariant, NoSizeVariant, OtherVariant}
FileVariants == {BaseVariant, RssVariant, OtherVariant}

Addrs == 1..MaxAddr

Mapping(a, v) == MemoryMap(a, a + v.len, v.perm, v.path, v.sizes, v.flags)

Mappings(vs) == {Mapping(a, v) : a \in Addrs, v \in vs}

\* Snapshots as the kernel reports them: strictly increasing start address.
StrictlyAscending(s) ==
    \A k \in 1..(Len(s) - 1) :
        s[k].address_range.from < s[k + 1].address_range.from

Snapshots(vs) ==
    {s \in UNION {[1..n -> Mappings(vs)] : n \in 0..MaxLen} : StrictlyAscending(s)}

---------------------------------------------------------------------------
(* diff.rs: Diffs and diff_sorted.                                         *)

DiffsDefault == [added |-> <<>>, removed |-> <<>>, changed |-> <<>>]

\* vec[k] of a slice: defined for k < vec.len() only (0-based).
InBounds(vec, k) == k < Len(vec)
At(vec, k) == vec[k + 1]

\* a loop that goes on while either cursor is in range
LoopCondEither == i < Len(vec1) \/ j < Len(vec2)

\* while i < vec1.len() && j < vec2.len()
LoopCond == i < Len(vec1) /\ j < Len(vec2)

\* a test that leaves rss() out
DiffersNoRss(a, b) ==
    \/ a.address_range.to # b.address_range.to
    \/ size(a) # size(b)

\* a test by the derived equality of MemoryMap
DiffersStructural(a, b) == a # b

\* the test of the third branch: the end address, size() or rss() differ
Differs(a, b) ==
    \/ a.address_range.to # b.address_range.to
    \/ size(a) # size(b)
    \/ rss(a) # rss(b)

\* an insertion at the front
PushFront(s, m) == <<m>> \o s

\* Vec::push
Push(s, m) == Append(s, m)

\* a removed record filed under added
PushRemovedAsAdded(d, m) == [d EXCEPT !.added = Push(@, m)]

\* diffs.removed.push(m), diffs.added.push(m), diffs.changed.push((a, b))
PushRemoved(d, m) == [d EXCEPT !.removed = Push(@, m)]
PushAdded(d, m) == [d EXCEPT !.added = Push(@, m)]
PushChanged(d, a, b) == [d EXCEPT !.changed = Push(@, <<a, b>>)]

mainVars == <<content, memory_map, last_memory_map, stdout, stderr>>

\* One iteration of the merge loop.  An index out of bounds panics.
MergeStep ==
    /\ pc = "merge"
    /\ LoopCond
    /\ iters' = iters + 1
    /\ IF ~(InBounds(vec1, i) /\ InBounds(vec2, j))
       THEN /\ pc' = "panicked"
            /\ stderr' = "index out of bounds"
            /\ UNCHANGED <<i, j, diffs, content, memory_map, last_memory_map, stdout>>
       ELSE /\ pc' = "merge"
            /\ UNCHANGED mainVars
            /\ IF MemoryMapLt(At(vec1, i), At(vec2, j))
               THEN /\ diffs' = PushRemoved(diffs, At(vec1, i))
                    /\ i' = i + 1
                    /\ j' = j
               ELSE IF MemoryMapGt(At(vec1, i), At(vec2, j))
               THEN /\ diffs' = PushAdded(diffs, At(vec2, j))
                    /\ j' = j + 1
                    /\ i' = i
               ELSE /\ diffs' = IF /\ i < Len(vec1)
                                   /\ j < Len(vec2)
                                   /\ Differs(At(vec1, i), At(vec2, j))
                                THEN PushChanged(diffs, At(vec1, i), At(vec2, j))
                                ELSE diffs
                    /\ i' = i + 1
                    /\ j' = j + 1
    /\ UNCHANGED <<vec1, vec2>>

MergeExit ==
    /\ pc = "merge"
    /\ ~LoopCond
    /\ pc' = "rest_old"
    /\ UNCHANGED <<vec1, vec2, i, j, diffs, iters, mainVars>>

\* while i < vec1.len(): the remaining old records are removed
RestOldStep ==
    /\ pc = "rest_old"
    /\ i < Len(vec1)
    /\ diffs' = PushRemoved(diffs, At(vec1, i))
    /\ i' = i + 1
    /\ iters' = iters + 1
    /\ UNCHANGED <<pc, vec1, vec2, j, mainVars>>

RestOldExit ==
    /\ pc = "rest_old"
    /\ ~(i < Len(vec1))
    /\ pc' = "rest_new"
    /\ UNCHANGED <<vec1, vec2, i, j, diffs, iters, mainVars>>

\* while j < vec2.len(): the remaining new records are added
RestNewStep ==
    /\ pc = "rest_new"
    /\ j < Len(vec2)
    /\ diffs' = PushAdded(diffs, At(vec2, j))
    /\ j' = j + 1
    /\ iters' = iters + 1
    /\ UNCHANGED <<pc, vec1, vec2, i, mainVars>>

\* the function returns diffs
RestNewExit ==
    /\ pc = "rest_new"
    /\ ~(j < Len(vec2))
    /\ pc' = "returned"
    /\ UNCHANGED <<vec1, vec2, i, j, diffs, iters, mainVars>>

diff_sorted ==
    \/ MergeStep
    \/ MergeExit
    \/ RestOldStep
    \/ RestOldExit
    \/ RestNewStep
    \/ RestNewExit

---------------------------------------------------------------------------
(* The report read from /proc/<pid>/smaps, as a sequence of lines.  A       *)
(* header line carries whether its address range is hexadecimal; a counter *)
(* line carries the form of its value ("4 kB", "4", or anything else).     *)

HeaderLine(m) ==
    [kind |-> "header", hex |-> TRUE,
     from |-> m.address_range.from, to |-> m.address_range.to,
     permissions |-> m.permissions, offset |-> m.offset, device |-> m.device,
     inode |-> m.inode, path |-> IF m.path = None THEN "" ELSE m.path[1]]

CounterLine(label, n) ==
    [kind |-> "counter", label |-> label,
     form |-> IF n.tag = "Kb" THEN "kB" ELSE "bare", num |-> n.num]

FlagsLine(flags) == [kind |-> "vmflags", flags |-> flags]

\* the order in which the kernel prints the counters
CounterOrder == <<"Size", "Rss", "Pss">>

RECURSIVE CounterLines(_, _)
CounterLines(sizes, k) ==
    IF k > Len(CounterOrder) THEN <<>>
    ELSE (IF CounterOrder[k] \in DOMAIN sizes
          THEN <<CounterLine(CounterOrder[k], sizes[CounterOrder[k]])>>
          ELSE <<>>) \o CounterLines(sizes, k + 1)

\* the block of one mapping: header, counters, VmFlags
BlockLines(m) ==
    <<HeaderLine(m)>> \o CounterLines(m.sizes, 1) \o <<FlagsLine(m.vm_flags)>>

RECURSIVE ReportLines(_)
ReportLines(s) ==
    IF s = <<>> THEN <<>> ELSE BlockLines(Head(s)) \o ReportLines(Tail(s))

\* a line that no longer parses as what it was: "zzzz-2000 ...",
\* "Size: abc", "VmFlags:"
Garbled(line) ==
    IF line.kind = "header" THEN [line EXCEPT !.hex = FALSE]
    ELSE IF line.kind = "counter" THEN [line EXCEPT !.form = "other"]
    ELSE [line EXCEPT !.flags = ""]

Garble(lines, k) == [lines EXCEPT ![k] = Garbled(lines[k])]
DropLine(lines, k) == SubSeq(lines, 1, k - 1) \o SubSeq(lines, k + 1, Len(lines))

\* what a read of the file can return: a report, or a report with one line
\* garbled or missing
Contents ==
    LET reports == {ReportLines(s) : s \in Snapshots(FileVariants)}
    IN  reports
        \cup {Garble(r, k) : <<r, k>> \in {<<r, k>> \in reports \X (1..(4 * MaxLen)) : k <= Len(r)}}
        \cup {DropLine(r, k) : <<r, k>> \in {<<r, k>> \in reports \X (1..(4 * MaxLen)) : k <= Len(r)}}

---------------------------------------------------------------------------
(* parse.rs.  A parser returns Ok((rest, value)) or Err(Error).            *)

Ok(rest, val) == [ok |-> TRUE, rest |-> rest, val |-> val]
Err == [ok |-> FALSE, rest |-> <<>>, val |-> <<>>]

\* the result of a parser of one value: Ok(value) or Err(Error)
OkValue(val) == [ok |-> TRUE, val |-> val]
ErrValue == [ok |-> FALSE, val |-> <<>>]

\* parse_size: digits followed by " kB"
parse_size(line) == IF line.form = "kB" THEN OkValue(Kb(line.num)) ELSE ErrValue

\* parse_number: digits, whatever follows them
parse_number(line) ==
    IF line.form \in {"kB", "bare"} THEN OkValue(Number(line.num)) ELSE ErrValue

\* alt((parse_size, parse_number)): the first of the two that succeeds
alt_size_number(line) ==
    IF parse_size(line).ok THEN parse_size(line) ELSE parse_number(line)

\* parse_memory_line: label, ":", spaces, value
parse_memory_line(line) ==
    IF line.kind = "counter" /\ alt_size_number(line).ok
    THEN OkValue(<<line.label, alt_size_number(line).val>>)
    ELSE ErrValue

\* parse_vm_flags: "VmFlags:", spaces, at least one character
parse_vm_flags_ok(line) == line.kind = "vmflags" /\ line.flags # ""

\* parse_memory_range and the four fields and the path of the header line
parse_header_ok(line) == line.kind = "header" /\ line.hex

\* separated_list1(newline, parse_memory_line): the number of counter lines
\* taken from line k on
RECURSIVE CounterRun(_, _)
CounterRun(input, k) ==
    IF k <= Len(input) /\ parse_memory_line(input[k]).ok
    THEN 1 + CounterRun(input, k + 1)
    ELSE 0

\* sizes.into_iter().collect(): a later line of a label replaces an earlier
CollectSizes(pairs) ==
    [l \in {pairs[k][1] : k \in 1..Len(pairs)} |->
        LET last == CHOOSE k \in 1..Len(pairs) :
                        /\ pairs[k][1] = l
                        /\ \A n \in (k + 1)..Len(pairs) : pairs[n][1] # l
        IN  pairs[last][2]]

parse_memory_map(input) ==
    IF input = <<>> \/ ~parse_header_ok(input[1]) THEN Err
    ELSE LET h == input[1]
             n == CounterRun(input, 2)
         IN  IF n = 0 THEN Err
             ELSE IF Len(input) < n + 2 \/ ~parse_vm_flags_ok(input[n + 2]) THEN Err
             ELSE Ok(SubSeq(input, n + 3, Len(input)),
                     [address_range |-> [from |-> h.from, to |-> h.to],
                      permissions |-> h.permissions,
                      offset |-> h.offset,
                      device |-> h.device,
                      inode |-> h.inode,
                      path |-> IF h.path = "" THEN None ELSE Some(h.path),
                      sizes |-> CollectSizes([k \in 1..n |-> parse_memory_line(input[k + 1]).val]),
                      vm_flags |-> input[n + 2].flags])

\* many0(parse_memory_map): repeats the parser until it returns an error,
\* and then returns what it has gathered with the input left over
RECURSIVE many0(_, _)
many0(input, acc) ==
    LET r == parse_memory_map(input)
    IN  IF ~r.ok THEN Ok(input, acc)
        ELSE IF Len(r.rest) = Len(input) THEN Err
        ELSE many0(r.rest, Append(acc, r.val))

\* many0(parse::parse_memory_map)(&content), as main calls it
ParseReport(text) == many0(text, <<>>)

---------------------------------------------------------------------------
(* main.rs: the periodic loop.                                             *)

diffVars == <<vec1, vec2, i, j, diffs, iters>>

ReadFailed == "Failed to read smaps file"
ParseFailed == "Failed to parse memory map"
RssFailed == "called Result::unwrap() on an Err value"

\* fs::read_to_string(&smaps_path) returns the text
ReadOk ==
    /\ pc = "read"
    /\ content' \in Contents
    /\ pc' = "parse"
    /\ stdout' = <<>>
    /\ UNCHANGED <<memory_map, last_memory_map, diffVars, stderr>>

\* fs::read_to_string(&smaps_path) fails: expect panics
ReadFail ==
    /\ pc = "read"
    /\ pc' = "panicked"
    /\ stderr' = ReadFailed
    /\ stdout' = <<>>
    /\ UNCHANGED <<content, memory_map, last_memory_map, diffVars>>

\* many0(parse::parse_memory_map)(&content).expect(..).1
Parse ==
    /\ pc = "parse"
    /\ LET r == ParseReport(content)
       IN  IF r.ok
           THEN /\ memory_map' = r.val
                /\ pc' = "diff"
                /\ stderr' = stderr
           ELSE /\ memory_map' = memory_map
                /\ pc' = "panicked"
                /\ stderr' = ParseFailed
    /\ UNCHANGED <<content, last_memory_map, diffVars, stdout>>

\* diff::diff_sorted(&last_memory_map, &memory_map)
DiffCall ==
    /\ pc = "diff"
    /\ vec1' = last_memory_map
    /\ vec2' = memory_map
    /\ i' = 0
    /\ j' = 0
    /\ diffs' = DiffsDefault
    /\ iters' = 0
    /\ pc' = "merge"
    /\ UNCHANGED mainVars

RECURSIVE Flatten(_)
Flatten(pairs) ==
    IF pairs = <<>> THEN <<>>
    ELSE <<Head(pairs)[1], Head(pairs)[2], "--------">> \o Flatten(Tail(pairs))

\* the println! calls of one cycle
Printed(d) ==
    <<"", "rss">> \o <<"ADDED">> \o d.added \o <<"REMOVED">> \o d.removed
        \o <<"CHANGED">> \o Flatten(d.changed)

\* the cycle prints the diff and keeps the snapshot
Render ==
    /\ pc = "returned"
    /\ stdout' = Printed(diffs)
    /\ last_memory_map' = memory_map
    /\ pc' = "sleep"
    /\ UNCHANGED <<content, memory_map, diffVars, stderr>>

\* get_rss(args.pid).unwrap() panics, after the empty line is printed
RenderPanic ==
    /\ pc = "returned"
    /\ stdout' = <<"">>
    /\ pc' = "panicked"
    /\ stderr' = RssFailed
    /\ UNCHANGED <<content, memory_map, last_memory_map, diffVars>>

\* std::thread::sleep(..); the iteration ends and its locals are dropped
Sleep ==
    /\ pc = "sleep"
    /\ pc' = "read"
    /\ content' = <<>>
    /\ memory_map' = <<>>
    /\ vec1' = <<>>
    /\ vec2' = <<>>
    /\ i' = 0
    /\ j' = 0
    /\ diffs' = DiffsDefault
    /\ iters' = 0
    /\ UNCHANGED <<last_memory_map, stdout, stderr>>

\* main with --period: let mut last_memory_map = Vec::new(); loop { .. }
Init ==
    /\ pc = "read"
    /\ content = <<>>
    /\ memory_map = <<>>
    /\ last_memory_map = <<>>
    /\ vec1 = <<>>
    /\ vec2 = <<>>
    /\ i = 0
    /\ j = 0
    /\ diffs = DiffsDefault
    /\ iters = 0
    /\ stdout = <<>>
    /\ stderr = ""

Next ==
    \/ ReadOk
    \/ ReadFail
    \/ Parse
    \/ DiffCall
    \/ diff_sorted
    \/ Render
    \/ RenderPanic
    \/ Sleep

Spec == Init /\ [][Next]_vars

\* diff_sorted entered with two snapshots
InitDiff ==
    /\ vec1 \in Snapshots(Variants)
    /\ vec2 \in Snapshots(Variants)
    /\ pc = "merge"
    /\ i = 0
    /\ j = 0
    /\ diffs = DiffsDefault
    /\ iters = 0
    /\ content = <<>>
    /\ memory_map = <<>>
    /\ last_memory_map = <<>>
    /\ stdout = <<>>
    /\ stderr = ""

NextDiff == diff_sorted

SpecDiff == InitDiff /\ [][NextDiff]_vars

FairSpecDiff == SpecDiff /\ WF_vars(NextDiff)

---------------------------------------------------------------------------
(* Properties of diff_sorted, checked under SpecDiff.                      *)

Returned == pc = "returned"

From(m) == m.address_range.from

RangeOf(s) == {s[k] : k \in 1..Len(s)}
Count(s, r) == Cardinality({k \in 1..Len(s) : s[k] = r})

ChangedOld == [k \in 1..Len(diffs.changed) |-> diffs.changed[k][1]]
ChangedNew == [k \in 1..Len(diffs.changed) |-> diffs.changed[k][2]]

\* the magnitude of a counter of a record, if the record has it
CounterOf(m, key) == IF key \in DOMAIN m.sizes THEN <<m.sizes[key].num>> ELSE <<>>

\* two records agree on the end address, the Size value and the Rss value
Identical(a, b) ==
    /\ a.address_range.to = b.address_range.to
    /\ CounterOf(a, "Size") = CounterOf(b, "Size")
    /\ CounterOf(a, "Rss") = CounterOf(b, "Rss")

HasStart(s, a) == \E k \in 1..Len(s) : From(s[k]) = a

AscendingByStart(s) == \A k \in 1..(Len(s) - 1) : From(s[k]) < From(s[k + 1])

\* C1: diff completeness.  When diff_sorted has returned, every record of
\* the old sequence is in removed or is the old side of a changed pair,
\* never both and never twice, or else it is in neither and the new sequence
\* holds a record of the same start address that agrees with it on end
\* address, Size and Rss; the same for the new sequence with added and the
\* new side of the changed pairs; and the result holds no other records.
C1_DiffCompleteness ==
    Returned =>
        /\ \A r \in RangeOf(vec1) :
              LET n == Count(diffs.removed, r) + Count(ChangedOld, r)
              IN  /\ n <= 1
                  /\ n = 0 => \E m \in RangeOf(vec2) :
                                  From(m) = From(r) /\ Identical(r, m)
        /\ \A r \in RangeOf(vec2) :
              LET n == Count(diffs.added, r) + Count(ChangedNew, r)
              IN  /\ n <= 1
                  /\ n = 0 => \E m \in RangeOf(vec1) :
                                  From(m) = From(r) /\ Identical(m, r)
        /\ RangeOf(diffs.removed) \cup RangeOf(ChangedOld) \subseteq RangeOf(vec1)
        /\ RangeOf(diffs.added) \cup RangeOf(ChangedNew) \subseteq RangeOf(vec2)

\* a result with a removed, an added, a changed and an unreported record
C1_Witness ==
    /\ Returned
    /\ Len(vec1) = 2
    /\ Len(vec2) = 2
    /\ Len(diffs.removed) = 1
    /\ Len(diffs.added) = 1
    /\ Len(diffs.changed) = 0
    /\ \E r \in RangeOf(vec1) : \E m \in RangeOf(vec2) :
          From(r) = From(m) /\ r # m /\ Identical(r, m)

\* C2: for sequences strictly increasing by start address, removed is
\* exactly the old records whose start address no new record has, and added
\* exactly the new records whose start address no old record has, the
\* records left over when the other sequence is exhausted included.
C2_RemovedAddedExact ==
    (Returned /\ StrictlyAscending(vec1) /\ StrictlyAscending(vec2)) =>
        /\ diffs.removed = SelectSeq(vec1, LAMBDA r : ~HasStart(vec2, From(r)))
        /\ diffs.added = SelectSeq(vec2, LAMBDA r : ~HasStart(vec1, From(r)))

\* the old sequence goes on after the new one is exhausted: 1, 3 against 2
C2_Witness ==
    /\ Returned
    /\ Len(vec1) = 2
    /\ Len(vec2) = 1
    /\ From(vec1[1]) < From(vec2[1])
    /\ From(vec2[1]) < From(vec1[2])
    /\ diffs.removed = vec1
    /\ diffs.added = vec2

\* C3: an old and a new record of the same start address are a changed pair
\* if and only if they differ in end address, Size value or Rss value; when
\* the three agree the two records are in none of added, removed, changed,
\* whatever else differs.
C3_ChangedIffDiffers ==
    Returned =>
        \A a \in RangeOf(vec1) : \A b \in RangeOf(vec2) :
            From(a) = From(b) =>
                /\ (<<a, b>> \in RangeOf(diffs.changed)) <=> ~Identical(a, b)
                /\ Identical(a, b) =>
                      /\ a \notin RangeOf(diffs.removed) \cup RangeOf(ChangedOld)
                      /\ b \notin RangeOf(diffs.added) \cup RangeOf(ChangedNew)

\* one pair that differs in permissions, path, flags and counters but not
\* in the three and is not reported, beside one pair that is changed
C3_Witness ==
    /\ Returned
    /\ Len(diffs.changed) = 1
    /\ diffs.removed = <<>>
    /\ diffs.added = <<>>
    /\ \E a \in RangeOf(vec1) : \E b \in RangeOf(vec2) :
          /\ From(a) = From(b)
          /\ Identical(a, b)
          /\ a.permissions # b.permissions
          /\ a.path # b.path
          /\ a.sizes # b.sizes

\* C4: diff determinism.  The diff of a sequence against itself is empty.
C4_DiffOfSelfEmpty ==
    (Returned /\ vec1 = vec2) => diffs = DiffsDefault

C4_Witness ==
    /\ Returned
    /\ vec1 = vec2
    /\ Len(vec1) = 2
    /\ diffs = DiffsDefault

\* C5: ordering.  At every point of diff_sorted, added, removed and both
\* sides of the changed pairs are in ascending order of start address.
C5_OutputsAscending ==
    /\ AscendingByStart(diffs.added)
    /\ AscendingByStart(diffs.removed)
    /\ AscendingByStart(ChangedOld)
    /\ AscendingByStart(ChangedNew)

\* two removed records around an added one
C5_Witness ==
    /\ Returned
    /\ Len(diffs.removed) = 2
    /\ Len(diffs.added) = 1
    /\ From(diffs.removed[1]) < From(diffs.added[1])
    /\ From(diffs.added[1]) < From(diffs.removed[2])

\* a mapping replaced by an unrelated one at the same start address
Unrelated(a, b) ==
    /\ From(a) = From(b)
    /\ a.permissions # b.permissions
    /\ a.path # b.path

\* C9 as stated: a mapping replaced by an unrelated mapping of the same
\* start address is reported as a changed pair, and not as a removed and an
\* added record.
C9_UnrelatedIsChanged ==
    Returned =>
        \A a \in RangeOf(vec1) : \A b \in RangeOf(vec2) :
            Unrelated(a, b) =>
                /\ <<a, b>> \in RangeOf(diffs.changed)
                /\ a \notin RangeOf(diffs.removed)
                /\ b \notin RangeOf(diffs.added)

\* C9 as amended: a mapping replaced by an unrelated mapping of the same
\* start address is never reported as a removed and an added record; it is
\* reported as a changed pair when the two differ in end address, Size value
\* or Rss value, and not reported at all when the three agree.
C9_UnrelatedNeverRemovedAdded ==
    Returned =>
        \A a \in RangeOf(vec1) : \A b \in RangeOf(vec2) :
            Unrelated(a, b) =>
                /\ a \notin RangeOf(diffs.removed)
                /\ b \notin RangeOf(diffs.added)
                /\ IF Identical(a, b)
                   THEN \A p \in RangeOf(diffs.changed) : p[1] # a /\ p[2] # b
                   ELSE Count(diffs.changed, <<a, b>>) = 1

\* an unrelated mapping of another end address took the place of the old one
C9_Witness ==
    /\ Returned
    /\ \E a \in RangeOf(vec1) : \E b \in RangeOf(vec2) :
          /\ Unrelated(a, b)
          /\ a.address_range.to # b.address_range.to
          /\ diffs.changed = <<(<<a, b>>)>>
          /\ diffs.removed = <<>>
          /\ diffs.added = <<>>

\* the cursors stay within the sequences, no access is out of bounds, and
\* the function returns with both sequences consumed
C10_Bounds ==
    /\ pc # "panicked"
    /\ i <= Len(vec1)
    /\ j <= Len(vec2)
    /\ iters <= Len(vec1) + Len(vec2)
    /\ Returned => (i = Len(vec1) /\ j = Len(vec2))
    /\ Returned \/ ENABLED NextDiff

\* no cursor moves back, and an iteration moves one of them or both by one
C10_Advance ==
    /\ i' \in {i, i + 1}
    /\ j' \in {j, j + 1}
    /\ iters' # iters => i' + j' > i + j

\* C10: diff_sorted cannot fail.  Every access is within bounds, every
\* iteration advances i or j or both by one and none moves a cursor back,
\* and the function returns, with i = |A| and j = |B|, after at most
\* |A| + |B| iterations.
C10_DiffCannotFail ==
    /\ []C10_Bounds
    /\ [][C10_Advance]_vars
    /\ <>Returned

\* the most iterations two sequences allow, the last of them in the loop
\* over the remaining old records: 1, 3 against 2
C10_Witness ==
    /\ Returned
    /\ Len(vec1) = 2
    /\ Len(vec2) = 1
    /\ From(vec2[1]) < From(vec1[2])
    /\ iters = Len(vec1) + Len(vec2)
    /\ i = 2
    /\ j = 1

---------------------------------------------------------------------------
(* Properties of the periodic loop, checked under Spec.                    *)

\* A report is well formed when it is record blocks, one after another,
\* until the input is exhausted; otherwise some record block is malformed.
RECURSIVE WellFormedReport(_)
WellFormedReport(input) ==
    \/ input = <<>>
    \/ /\ parse_memory_map(input).ok
       /\ WellFormedReport(parse_memory_map(input).rest)

\* C6: a report with a malformed record block is not parsed to a successful
\* result: the parse of the whole report, as main runs it, is an error.
C6_ParseFailsAtomically ==
    (pc = "parse" /\ ~WellFormedReport(content)) => ~ParseReport(content).ok

\* the positions of a cycle from the call of diff_sorted to its end
DiffOrRender == {"diff", "merge", "rest_old", "rest_new", "returned", "sleep"}

\* C7: in a cycle whose read or parse fails the failure is reported, and the
\* cycle goes on neither to the diff against the previous snapshot nor to
\* the rendering.
C7_FailedCycleStops ==
    /\ stderr = ReadFailed => (pc \notin DiffOrRender /\ stdout = <<>>)
    /\ (pc # "parse" /\ ~WellFormedReport(content)) =>
          (stderr # "" /\ pc \notin DiffOrRender /\ stdout = <<>>)

\* C8: a bad read or a failed parse of one cycle does not end the process.
C8_LoopSurvivesBadCycle ==
    pc = "panicked" => stderr \notin {ReadFailed, ParseFailed}

=============================================================================
